---- MODULE Spec2Model ----
(***************************************************************************)
(* Model of the AI Math Mentor orchestration pipeline (LeaderAgent.solve)  *)
(* and of the agents it sequences.  Texts are sequences of one-character   *)
(* strings so that the validators, the sanitiser and the substitution      *)
(* check are computed character by character as the Python code does.      *)
(* Confidences and relevance scores are integers in hundredths.            *)
(***************************************************************************)
EXTENDS Integers, Sequences, FiniteSets, TLC

\* ------------------------------------------------------------------------
\* Bounds of the model
\* ------------------------------------------------------------------------
\* longest result list the vector index hands back for the general search
MaxGeneral == 1
\* longest result list the vector index hands back for the topic search
MaxTopic == 1
MaxHits == 2    \* most hits one index query answers with (retrieval on its own)
MaxK == 3       \* largest k retrieve is called with
MaxVerifyCalls == 2  \* calls of verify on the same problem and solution
MaxRows == 2         \* interactions the store comes to hold
MaxFeedback == 1     \* save_feedback calls
MaxOutcomes == 3     \* record_strategy_outcome calls

\* ------------------------------------------------------------------------
\* Program constants
\* ------------------------------------------------------------------------
VERIFIER_CONFIDENCE_THRESHOLD == 80
MIN_RELEVANCE_SCORE == 35
DEFAULT_K == 5
TOPIC_K == 2

NULL == "null"

\* ------------------------------------------------------------------------
\* Character classes
\* ------------------------------------------------------------------------
Digits == {"0", "1", "2", "3", "4", "5", "6", "7", "8", "9"}
LowerLetters ==
    {"a", "b", "c", "d", "e", "f", "g", "h", "i", "j", "k", "l", "m",
     "n", "o", "p", "q", "r", "s", "t", "u", "v", "w", "x", "y", "z"}
UpperLetters ==
    {"A", "B", "C", "D", "E", "F", "G", "H", "I", "J", "K", "L", "M",
     "N", "O", "P", "Q", "R", "S", "T", "U", "V", "W", "X", "Y", "Z"}
Letters == LowerLetters \cup UpperLetters
Whitespace == {" "}

DigitVal(c) ==
    CASE c = "0" -> 0 [] c = "1" -> 1 [] c = "2" -> 2 [] c = "3" -> 3
      [] c = "4" -> 4 [] c = "5" -> 5 [] c = "6" -> 6 [] c = "7" -> 7
      [] c = "8" -> 8 [] c = "9" -> 9 [] OTHER -> 0

\* str.lower() on the upper-case letters the sample inputs use
LowerChar(c) ==
    CASE c = "I" -> "i" [] c = "S" -> "s" [] c = "X" -> "x"
      [] c = "P" -> "p" [] OTHER -> c

Lower(s) == [i \in 1..Len(s) |-> LowerChar(s[i])]

\* str.strip()
RECURSIVE LStrip(_)
LStrip(s) ==
    IF s # <<>> /\ Head(s) \in Whitespace THEN LStrip(Tail(s)) ELSE s

RECURSIVE RStrip(_)
RStrip(s) ==
    IF s # <<>> /\ s[Len(s)] \in Whitespace
    THEN RStrip(SubSeq(s, 1, Len(s) - 1))
    ELSE s

Strip(s) == RStrip(LStrip(s))

\* `sub in s` for Python strings
Contains(s, sub) ==
    \E i \in 1..(Len(s) - Len(sub) + 1) : SubSeq(s, i, i + Len(sub) - 1) = sub

HasChar(s, c) == \E i \in 1..Len(s) : s[i] = c

\* ------------------------------------------------------------------------
\* parser_agent.py : validation helpers (no oracle)
\* ------------------------------------------------------------------------
Opening == {"(", "[", "{"}
Closing == {")", "]", "}"}
pairs(c) == CASE c = ")" -> "(" [] c = "]" -> "[" [] OTHER -> "{"

RECURSIVE BracketScan(_, _, _)
BracketScan(text, i, stack) ==
    IF i > Len(text) THEN stack = <<>>
    ELSE IF text[i] \in Opening
         THEN BracketScan(text, i + 1, Append(stack, text[i]))
    ELSE IF text[i] \in Closing
         THEN IF stack = <<>> \/ stack[Len(stack)] # pairs(text[i])
              THEN FALSE
              ELSE BracketScan(text, i + 1, SubSeq(stack, 1, Len(stack) - 1))
    ELSE BracketScan(text, i + 1, stack)

_has_balanced_brackets(text) == BracketScan(text, 1, <<>>)

math_symbols == {"=", "+", "-", "*", "/", "^"}

math_keywords ==
    { <<"p", "r", "o", "b", "a", "b", "i", "l", "i", "t", "y">>,
      <<"c", "h", "a", "n", "c", "e">>,
      <<"h", "o", "w", " ", "m", "a", "n", "y">>,
      <<"n", "u", "m", "b", "e", "r", " ", "o", "f">>,
      <<"t", "o", "t", "a", "l">>,
      <<"s", "u", "m">>,
      <<"d", "i", "f", "f", "e", "r", "e", "n", "c", "e">>,
      <<"p", "r", "o", "d", "u", "c", "t">>,
      <<"r", "a", "t", "i", "o">>,
      <<"f", "r", "a", "c", "t", "i", "o", "n">>,
      <<"p", "e", "r", "c", "e", "n", "t">>,
      <<"a", "v", "e", "r", "a", "g", "e">>,
      <<"m", "e", "a", "n">>,
      <<"c", "o", "n", "t", "a", "i", "n", "e", "r">>,
      <<"b", "a", "g">>,
      <<"b", "a", "l", "l", "s">>,
      <<"c", "a", "r", "d", "s">>,
      <<"d", "i", "c", "e">>,
      <<"c", "o", "i", "n">>,
      <<"p", "i", "c", "k">>,
      <<"c", "h", "o", "o", "s", "e">>,
      <<"s", "e", "l", "e", "c", "t">>,
      <<"r", "a", "n", "d", "o", "m">> }

_looks_like_math(text) ==
    \/ \E i \in 1..Len(text) : text[i] \in math_symbols
    \/ \E i \in 1..Len(text) : text[i] \in Digits
    \/ \E kw \in math_keywords : Contains(Lower(text), kw)

AllowedSymbols ==
    {"+", "-", "*", "/", "=", "^", "(", ")", "[", "]", "{", "}", ".", ",",
     "%", "?", ":", ";", "'", "<", ">", "|"}

_has_invalid_symbols(text) ==
    \E i \in 1..Len(text) :
        text[i] \notin (Letters \cup Digits \cup Whitespace \cup AllowedSymbols)

\* ------------------------------------------------------------------------
\* Numbers: Python floats are modelled by exact rationals [n, d], d > 0
\* ------------------------------------------------------------------------
Rat(n, d) == [n |-> n, d |-> d]
RatAdd(a, b) == Rat(a.n * b.d + b.n * a.d, a.d * b.d)
RatSub(a, b) == Rat(a.n * b.d - b.n * a.d, a.d * b.d)
RatMul(a, b) == Rat(a.n * b.n, a.d * b.d)
RatDiv(a, b) == IF b.n > 0 THEN Rat(a.n * b.d, a.d * b.n)
                ELSE Rat(0 - a.n * b.d, a.d * (0 - b.n))
RatNeg(a) == Rat(0 - a.n, a.d)
RatLeq(a, b) == a.n * b.d <= b.n * a.d
RatLt(a, b) == a.n * b.d < b.n * a.d
Abs(i) == IF i < 0 THEN 0 - i ELSE i

RECURSIVE Pow10(_)
Pow10(k) == IF k = 0 THEN 1 ELSE 10 * Pow10(k - 1)

RECURSIVE RatPow(_, _)
RatPow(a, k) == IF k = 0 THEN Rat(1, 1) ELSE RatMul(a, RatPow(a, k - 1))

\* length of the maximal run of digits of s that starts at position i
RECURSIVE DigitRun(_, _)
DigitRun(s, i) ==
    IF i <= Len(s) /\ s[i] \in Digits THEN 1 + DigitRun(s, i + 1) ELSE 0

\* int() of the k digits of s that start at position i
RECURSIVE DigitsValue(_, _, _)
DigitsValue(s, i, k) ==
    IF k = 0 THEN 0
    ELSE 10 * DigitsValue(s, i, k - 1) + DigitVal(s[i + k - 1])

\* ------------------------------------------------------------------------
\* re.search(r"([-+]?\d*\.?\d+)", s) followed by float(match.group(1))
\* ------------------------------------------------------------------------
\* the match of \d*\.?\d+ anchored at position j : [len, value]
UnsignedAt(s, j) ==
    LET a == DigitRun(s, j)
        dot == j + a <= Len(s) /\ s[j + a] = "."
        b == IF dot THEN DigitRun(s, j + a + 1) ELSE 0
    IN  IF b > 0
        THEN [len |-> a + 1 + b,
              val |-> Rat(DigitsValue(s, j, a) * Pow10(b)
                            + DigitsValue(s, j + a + 1, b), Pow10(b))]
        ELSE [len |-> a, val |-> Rat(DigitsValue(s, j, a), 1)]

\* the match of the whole pattern anchored at position i
NumberAt(s, i) ==
    IF i <= Len(s) /\ s[i] \in {"-", "+"}
    THEN LET u == UnsignedAt(s, i + 1)
         IN  IF u.len = 0 THEN [len |-> 0, val |-> Rat(0, 1)]
             ELSE [len |-> u.len + 1,
                   val |-> IF s[i] = "-" THEN RatNeg(u.val) ELSE u.val]
    ELSE UnsignedAt(s, i)

NumberPositions(s) == {i \in 1..Len(s) : NumberAt(s, i).len > 0}

\* [found, val] : the leftmost match, as re.search returns it
ExtractNumber(s) ==
    IF NumberPositions(s) = {} THEN [found |-> FALSE, val |-> Rat(0, 1)]
    ELSE LET i == CHOOSE p \in NumberPositions(s) :
                      \A q \in NumberPositions(s) : p <= q
         IN  [found |-> TRUE, val |-> NumberAt(s, i).val]

\* ------------------------------------------------------------------------
\* verifier_agent.py : _sanitize
\* ------------------------------------------------------------------------
RECURSIVE ReplaceCaret(_)
ReplaceCaret(s) ==
    IF s = <<>> THEN <<>>
    ELSE IF Head(s) = "^" THEN <<"*", "*">> \o ReplaceCaret(Tail(s))
    ELSE <<Head(s)>> \o ReplaceCaret(Tail(s))

RemoveSpaces(s) == SelectSeq(s, LAMBDA c : c # " ")

\* re.sub(r"(\d)([a-zA-Z(])", r"\1*\2", expr)
RECURSIVE MulAfterDigit(_)
MulAfterDigit(s) ==
    IF Len(s) < 2 THEN s
    ELSE IF s[1] \in Digits /\ s[2] \in (Letters \cup {"("})
         THEN <<s[1], "*">> \o MulAfterDigit(Tail(s))
    ELSE <<s[1]>> \o MulAfterDigit(Tail(s))

\* re.sub(r"(\))(\d|[a-zA-Z])", r"\1*\2", expr)
RECURSIVE MulAfterParen(_)
MulAfterParen(s) ==
    IF Len(s) < 2 THEN s
    ELSE IF s[1] = ")" /\ s[2] \in (Letters \cup Digits)
         THEN <<s[1], "*">> \o MulAfterParen(Tail(s))
    ELSE <<s[1]>> \o MulAfterParen(Tail(s))

_sanitize(expr) == MulAfterParen(MulAfterDigit(RemoveSpaces(ReplaceCaret(expr))))

\* ------------------------------------------------------------------------
\* eval(expr, {}, {"x": x_val}) on a sanitised expression.
\* The Python expression grammar is modelled for the characters the
\* verifier can hand it from the modelled inputs: digits, ".", names,
\* + - * / // % ** and parentheses.  A result with ok = FALSE stands for
\* any exception eval raises (SyntaxError, NameError, ZeroDivisionError).
\* ------------------------------------------------------------------------
EvalFail(i) == [ok |-> FALSE, val |-> Rat(0, 1), pos |-> i]
EvalOk(v, i) == [ok |-> TRUE, val |-> v, pos |-> i]

CharAt(s, i) == IF i >= 1 /\ i <= Len(s) THEN s[i] ELSE NULL

RECURSIVE NameRun(_, _)
NameRun(s, i) ==
    IF i <= Len(s) /\ s[i] \in (Letters \cup Digits)
    THEN 1 + NameRun(s, i + 1) ELSE 0

RatFloor(a) == Rat(a.n \div a.d, 1)
RatIsInt(a) == a.n % a.d = 0

\* a numeric literal with a digits before the point and b digits after it
LiteralOf(s, i, a, dot, b) ==
    IF dot /\ a + b > 0
    THEN EvalOk(Rat(DigitsValue(s, i, a) * Pow10(b)
                      + DigitsValue(s, i + a + 1, b), Pow10(b)),
                i + a + 1 + b)
    ELSE IF a = 0 THEN EvalFail(i)
    ELSE IF a > 1 /\ s[i] = "0" /\ DigitsValue(s, i, a) # 0
         THEN EvalFail(i)
    ELSE EvalOk(Rat(DigitsValue(s, i, a), 1), i + a)

LiteralFrac(s, i, a) ==
    LiteralOf(s, i, a, CharAt(s, i + a) = ".",
              IF CharAt(s, i + a) = "." THEN DigitRun(s, i + a + 1) ELSE 0)

NumberLiteral(s, i) == LiteralFrac(s, i, DigitRun(s, i))

RECURSIVE ParseExpr(_, _, _)
RECURSIVE ExprRest(_, _, _, _)
RECURSIVE ParseTerm(_, _, _)
RECURSIVE TermRest(_, _, _, _)
RECURSIVE ParseFactor(_, _, _)
RECURSIVE ParsePower(_, _, _)
RECURSIVE ParseAtom(_, _, _)

\* atom: "(" expr ")" once the inner expression r has been read
CloseParen(s, i, r) ==
    IF r.ok /\ CharAt(s, r.pos) = ")" THEN EvalOk(r.val, r.pos + 1)
    ELSE EvalFail(i)

AtomAt(s, i, x, c) ==
    IF c \in Digits \/ c = "." THEN NumberLiteral(s, i)
    ELSE IF c \in Letters
         THEN IF NameRun(s, i) = 1 /\ c = "x" THEN EvalOk(x, i + 1)
              ELSE EvalFail(i)
    ELSE IF c = "(" THEN CloseParen(s, i, ParseExpr(s, i + 1, x))
    ELSE EvalFail(i)

ParseAtom(s, i, x) == AtomAt(s, i, x, CharAt(s, i))

\* a ** k for an integer k
PowerValue(i, a, k, pos) ==
    IF k >= 0 THEN EvalOk(RatPow(a, k), pos)
    ELSE IF a.n = 0 THEN EvalFail(i)
    ELSE EvalOk(RatDiv(Rat(1, 1), RatPow(a, 0 - k)), pos)

ApplyPower(i, a, f) ==
    IF ~f.ok \/ ~RatIsInt(f.val) THEN EvalFail(i)
    ELSE PowerValue(i, a.val, f.val.n \div f.val.d, f.pos)

PowerAfter(s, i, x, a) ==
    IF a.ok /\ CharAt(s, a.pos) = "*" /\ CharAt(s, a.pos + 1) = "*"
    THEN ApplyPower(i, a, ParseFactor(s, a.pos + 2, x))
    ELSE a

ParsePower(s, i, x) == PowerAfter(s, i, x, ParseAtom(s, i, x))

Signed(i, c, f) ==
    IF ~f.ok THEN EvalFail(i)
    ELSE EvalOk(IF c = "-" THEN RatNeg(f.val) ELSE f.val, f.pos)

ParseFactor(s, i, x) ==
    IF CharAt(s, i) \in {"+", "-"}
    THEN Signed(i, CharAt(s, i), ParseFactor(s, i + 1, x))
    ELSE ParsePower(s, i, x)

\* acc <op> v for op in * / // %
TermValue(acc, c, floordiv, v) ==
    IF c = "*" THEN RatMul(acc, v)
    ELSE IF floordiv THEN RatFloor(RatDiv(acc, v))
    ELSE IF c = "/" THEN RatDiv(acc, v)
    ELSE RatSub(acc, RatMul(v, RatFloor(RatDiv(acc, v))))

TermStep(s, i, acc, x, c, floordiv, f) ==
    IF ~f.ok THEN EvalFail(i)
    ELSE IF c # "*" /\ f.val.n = 0 THEN EvalFail(i)
    ELSE TermRest(s, f.pos, TermValue(acc, c, floordiv, f.val), x)

TermOp(s, i, acc, x, c, floordiv) ==
    IF c \notin {"*", "/", "%"} THEN EvalOk(acc, i)
    ELSE TermStep(s, i, acc, x, c, floordiv,
                  ParseFactor(s, IF floordiv THEN i + 2 ELSE i + 1, x))

TermRest(s, i, acc, x) ==
    TermOp(s, i, acc, x, CharAt(s, i),
           CharAt(s, i) = "/" /\ CharAt(s, i + 1) = "/")

TermStart(s, i, x, f) ==
    IF f.ok THEN TermRest(s, f.pos, f.val, x) ELSE EvalFail(i)

ParseTerm(s, i, x) == TermStart(s, i, x, ParseFactor(s, i, x))

ExprStep(s, i, acc, x, c, t) ==
    IF ~t.ok THEN EvalFail(i)
    ELSE ExprRest(s, t.pos,
                  IF c = "+" THEN RatAdd(acc, t.val) ELSE RatSub(acc, t.val), x)

ExprOp(s, i, acc, x, c) ==
    IF c \notin {"+", "-"} THEN EvalOk(acc, i)
    ELSE ExprStep(s, i, acc, x, c, ParseTerm(s, i + 1, x))

ExprRest(s, i, acc, x) == ExprOp(s, i, acc, x, CharAt(s, i))

ExprStart(s, i, x, t) ==
    IF t.ok THEN ExprRest(s, t.pos, t.val, x) ELSE EvalFail(i)

ParseExpr(s, i, x) == ExprStart(s, i, x, ParseTerm(s, i, x))

EvalEnd(s, r) == IF r.ok /\ r.pos = Len(s) + 1 THEN r ELSE EvalFail(1)

Eval(s, x) == EvalEnd(s, ParseExpr(s, 1, x))

\* ------------------------------------------------------------------------
\* verifier_agent.py : _deterministic_algebra_check
\* ------------------------------------------------------------------------
\* str.split("=") : the pieces between the "=" signs
RECURSIVE SplitEq(_, _)
SplitEq(s, cur) ==
    IF s = <<>> THEN <<cur>>
    ELSE IF Head(s) = "=" THEN <<cur>> \o SplitEq(Tail(s), <<>>)
    ELSE SplitEq(Tail(s), Append(cur, Head(s)))

\* abs(lhs_val - rhs_val) < 1e-6
WithinTolerance(l, r) ==
    LET diff == RatSub(l, r)
    IN  Abs(diff.n) * 1000000 < diff.d

NotApplicable == [applicable |-> FALSE, is_correct |-> FALSE, issue |-> NULL]
Verdict(ok, issue) == [applicable |-> TRUE, is_correct |-> ok, issue |-> issue]

\* lines 215-221 : both sides evaluated (or an exception caught, line 223)
SubstitutionVerdict(lhs_val, rhs_val) ==
    IF ~lhs_val.ok \/ ~rhs_val.ok
    THEN Verdict(FALSE, "Deterministic verification error")
    ELSE IF WithinTolerance(lhs_val.val, rhs_val.val)
         THEN Verdict(TRUE, NULL)
         ELSE Verdict(FALSE, "Substitution failed")

\* lines 206-224, given the extracted number and the pieces of the split
CheckWith(problem_text, match, parts) ==
    IF ~match.found THEN NotApplicable
    ELSE IF {problem_text[i] : i \in 1..Len(problem_text)}
               \cap (Letters \ {"x"}) # {}
    THEN NotApplicable
    ELSE IF Len(parts) # 2
    THEN Verdict(FALSE, "Deterministic verification error")
    ELSE SubstitutionVerdict(Eval(_sanitize(parts[1]), match.val),
                             Eval(_sanitize(parts[2]), match.val))

_deterministic_algebra_check(problem_text, final_answer) ==
    IF ~HasChar(problem_text, "=") THEN NotApplicable
    ELSE CheckWith(problem_text, ExtractNumber(final_answer),
                   SplitEq(problem_text, <<>>))

\* ------------------------------------------------------------------------
\* Sample inputs
\* ------------------------------------------------------------------------
TxtEmpty == <<>>
TxtBlank == <<" ", " ">>
TxtGibberish == <<"a", "s", "d", "k", "j", "f">>
TxtUnbalanced == <<"(", "2", "x", "+", "5", "=", "1", "3">>
TxtInvalidSym == <<"2", "x", "+", "5", "=", "1", "3", "#">>
TxtEquation == <<"2", "x", " ", "+", " ", "5", " ", "=", " ", "1", "3">>
TxtWord ==
    <<"I", "f", " ", "2", "x", " ", "+", " ", "5", " ", "=", " ", "1", "3",
      ",", " ", "f", "i", "n", "d", " ", "x">>
TxtKeyword == <<"p", "i", "c", "k", " ", "a", " ", "c", "a", "r", "d">>
TxtTwoEq == <<"x", "=", "4", "=", "4">>
TxtBadExpr == <<"2", "x", "+", "=", "1", "3">>
TxtParen == <<"2", "(", "x", "+", "1", ")", "=", "1", "0">>
TxtCompact == <<"2", "x", "+", "5", "=", "1", "3">>
TxtThirdEq == <<"3", "x", "=", "1">>
TxtDoubleEq == <<"2", "x", "=", "2">>

AnsFour == <<"x", " ", "=", " ", "4">>
AnsOne == <<"x", " ", "=", " ", "1">>
AnsHalf == <<"0", ".", "5">>
AnsWords == <<"o", "n", "e", " ", "h", "a", "l", "f">>
AnsThird == <<"x", " ", "=", " ", "1", "/", "3">>
AnsFracHalf == <<"x", " ", "=", " ", "1", "/", "2">>
AnsNegative == <<"-", "0", ".", "5">>
AnsUnable ==
    <<"U", "n", "a", "b", "l", "e", " ", "t", "o", " ",
      "d", "e", "t", "e", "r", "m", "i", "n", "e">>
AnsInsufficient ==
    <<"I", "n", "s", "u", "f", "f", "i", "c", "i", "e", "n", "t", " ",
      "r", "e", "f", "e", "r", "e", "n", "c", "e", " ",
      "m", "a", "t", "e", "r", "i", "a", "l", " ", "t", "o", " ",
      "s", "o", "l", "v", "e", " ", "r", "e", "l", "i", "a", "b", "l", "y", ".">>

\* ------------------------------------------------------------------------
\* External collaborators: what the completion oracle and the vector index
\* may do on one call
\* ------------------------------------------------------------------------
ABSENT == "absent"

OracleRaise == [kind |-> "raise"]
OracleEmpty == [kind |-> "empty"]
\* a non-empty reply that holds no JSON object / none of the asked structure
OracleGarbage == [kind |-> "garbage"]

\* a reply whose JSON object was found; a field the oracle left out has
\* has_<field> = FALSE, a confidence that float() rejects has conf_ok = FALSE
ParserDict(topic, has_text, text, clarify, conf_ok, conf) ==
    [kind |-> "dict", topic |-> topic, has_problem_text |-> has_text,
     problem_text |-> text, needs_clarification |-> clarify,
     conf_ok |-> conf_ok, confidence |-> conf]

ParserReplies ==
    {OracleRaise, OracleEmpty, OracleGarbage}
    \cup {ParserDict(t, FALSE, <<>>, FALSE, TRUE, 90) :
             t \in {"algebra", "linear_algebra", "calculus", "probability",
                    "geometry"}}
    \cup {ParserDict(t, TRUE, TxtEquation, FALSE, TRUE, 90) :
             t \in {"algebra", "calculus"}}
    \cup {ParserDict("algebra", FALSE, <<>>, TRUE, TRUE, 90),
          ParserDict("calculus", FALSE, <<>>, FALSE, TRUE, 150),
          ParserDict("probability", FALSE, <<>>, FALSE, TRUE, -20),
          ParserDict("algebra", FALSE, <<>>, FALSE, FALSE, 0)}

StrategyReplies ==
    {OracleRaise, OracleEmpty, OracleGarbage,
     [kind |-> "dict", problem_type |-> "direct"]}

RouterReplies ==
    {OracleRaise, OracleEmpty, OracleGarbage,
     \* valid JSON that is not an object, e.g. a list
     [kind |-> "nondict"],
     [kind |-> "dict", strategy |-> "direct_computation"]}

SolverText(steps, has_answer, answer) ==
    [kind |-> "text", steps |-> steps, has_answer |-> has_answer,
     final_answer |-> answer]

SolverReplies ==
    {OracleRaise, OracleEmpty,
     SolverText(0, FALSE, <<>>), SolverText(2, TRUE, AnsFour),
     SolverText(1, TRUE, AnsOne), SolverText(1, TRUE, AnsHalf)}

\* is_correct is "true", "false" or ABSENT
VerifierDict(is_correct, has_conf, conf_ok, conf) ==
    [kind |-> "dict", is_correct |-> is_correct, has_conf |-> has_conf,
     conf_ok |-> conf_ok, conf_nan |-> FALSE, confidence |-> conf]

VerifierReplies ==
    {OracleRaise, OracleEmpty, OracleGarbage,
     VerifierDict("true", TRUE, TRUE, 50),
     VerifierDict("false", TRUE, TRUE, 75),
     VerifierDict("true", TRUE, TRUE, 90),
     VerifierDict("true", TRUE, TRUE, 150),
     \* "confidence": NaN, which json.loads and float() accept
     [VerifierDict("true", TRUE, TRUE, 0) EXCEPT !.conf_nan = TRUE],
     VerifierDict(ABSENT, FALSE, TRUE, 0),
     VerifierDict("true", TRUE, FALSE, 0)}

ChunkTexts == {"c1", "c2"}
Relevances == {90, 20}
Chunks == [text : ChunkTexts, relevance_score : Relevances]

RECURSIVE SeqsUpTo(_, _)
SeqsUpTo(S, n) ==
    IF n = 0 THEN {<<>>}
    ELSE SeqsUpTo(S, n - 1)
           \cup {Append(q, e) : q \in {r \in SeqsUpTo(S, n - 1) : Len(r) = n - 1},
                                e \in S}

\* vectorstore.py line 47 : a document's id is derived from its text, so
\* the collection holds one entry per text and a query answers with
\* entries of different texts
DistinctTexts(q) == \A i, j \in 1..Len(q) : i # j => q[i].text # q[j].text

\* the index answers a query with at most n chunks, nearest first
IndexResults(n) ==
    {q \in SeqsUpTo(Chunks, n) :
        /\ DistinctTexts(q)
        /\ \A i \in 1..(Len(q) - 1) :
              q[i].relevance_score >= q[i + 1].relevance_score}

RawInputs ==
    {TxtEmpty, TxtBlank, TxtGibberish, TxtUnbalanced, TxtInvalidSym,
     TxtEquation, TxtWord, TxtKeyword, TxtTwoEq, TxtBadExpr, TxtParen}

\* ------------------------------------------------------------------------
\* Results of a call: a value, or a raised exception with its message
\* ------------------------------------------------------------------------
\* (an optional value is a sequence of length 0 or 1)
None == <<>>
Some(v) == <<v>>
Returned(v) == [raised |-> FALSE, msg |-> <<>>, value |-> Some(v)]
Raised(m) == [raised |-> TRUE, msg |-> m, value |-> None]

\* ------------------------------------------------------------------------
\* base_agent.py : BaseAgent.run  (one call of the oracle, no retry)
\* ------------------------------------------------------------------------
run(name, o) ==
    IF o.kind = "raise" THEN Raised(<<name, "agent execution failed">>)
    ELSE IF o.kind = "empty" THEN Raised(<<name, "agent returned empty response">>)
    ELSE Returned(o)

\* number of oracle invocations one call of BaseAgent.run makes
RunAttempts == 1

\* ------------------------------------------------------------------------
\* parser_agent.py : ParserAgent
\* ------------------------------------------------------------------------
Min(a, b) == IF a <= b THEN a ELSE b
Max(a, b) == IF a >= b THEN a ELSE b

_clarify(text, reason) ==
    [problem_text |-> text, topic |-> "unknown", needs_clarification |-> TRUE,
     clarification_reason |-> reason, confidence |-> 30]

topic_map(t) ==
    IF t \in {"algebra", "calculus", "probability", "linear_algebra"}
    THEN t ELSE "unknown"

\* the reason of the first hard validation that fails, NULL if none does
\* variant: the bracket check is left out
HardValidation_NoBracketCheck(text) ==
    IF text = <<>>
    THEN "Input is empty. Please enter a valid math problem."
    ELSE IF ~_looks_like_math(text)
    THEN "Input does not appear to be a math problem."
    ELSE IF _has_invalid_symbols(text)
    THEN "Invalid or unclear symbols detected. Please rewrite the problem."
    ELSE NULL

HardValidation(text) ==
    IF text = <<>>
    THEN "Input is empty. Please enter a valid math problem."
    ELSE IF ~_looks_like_math(text)
    THEN "Input does not appear to be a math problem."
    ELSE IF ~_has_balanced_brackets(text)
    THEN "Unbalanced brackets or parentheses detected."
    ELSE IF _has_invalid_symbols(text)
    THEN "Invalid or unclear symbols detected. Please rewrite the problem."
    ELSE NULL

\* lines 176-241 : the oracle structuring of the validated text
Structure(text, o, response) ==
    IF response.raised THEN response
    ELSE IF o.kind # "dict"
    THEN Raised(<<"Parser", "JSON extraction failed">>)
    ELSE IF ~o.conf_ok
    THEN Raised(<<"Parser", "could not convert string to float">>)
    ELSE Returned(
           [problem_text |-> IF o.has_problem_text
                             THEN o.problem_text ELSE text,
            topic |-> topic_map(o.topic),
            needs_clarification |-> o.needs_clarification,
            clarification_reason |-> NULL,
            confidence |-> Min(Max(o.confidence, 0), 100)])

ParseText(text, reason, o) ==
    IF reason # NULL
    THEN [called |-> FALSE, res |-> Returned(_clarify(text, reason))]
    ELSE [called |-> TRUE, res |-> Structure(text, o, run("Parser", o))]

\* [called, res] : called tells whether the oracle was invoked
_parse(content, o) ==
    ParseText(Strip(content), HardValidation(Strip(content)), o)

\* ------------------------------------------------------------------------
\* strategy_agent.py : StrategyAgent.process
\* ------------------------------------------------------------------------
DefaultStrategy == [problem_type |-> "unknown", is_default |-> TRUE]

StrategyProcess(o) ==
    IF run("Strategy", o).raised THEN run("Strategy", o)
    ELSE IF o.kind # "dict" THEN Returned(DefaultStrategy)
    ELSE Returned([problem_type |-> o.problem_type, is_default |-> FALSE])

\* ------------------------------------------------------------------------
\* router_agent.py : RouterAgent.route
\* ------------------------------------------------------------------------
\* is_dict = FALSE : _extract_json returned a JSON value that is no object
RouterFallback ==
    [is_dict |-> TRUE, strategy |-> "step_by_step_derivation",
     is_default |-> TRUE]

route(o) ==
    IF run("Router", o).raised \/ o.kind = "garbage"
    THEN Returned(RouterFallback)
    ELSE IF o.kind = "nondict"
    THEN Returned([is_dict |-> FALSE, strategy |-> NULL, is_default |-> FALSE])
    ELSE Returned([is_dict |-> TRUE, strategy |-> o.strategy,
                   is_default |-> FALSE])

\* ------------------------------------------------------------------------
\* retriever.py : RAGRetriever.retrieve
\* ------------------------------------------------------------------------
\* list.sort(key=relevance_score, reverse=True) : stable, descending
RECURSIVE InsertDesc(_, _)
InsertDesc(sorted, e) ==
    IF sorted = <<>> THEN <<e>>
    ELSE IF Head(sorted).relevance_score >= e.relevance_score
         THEN <<Head(sorted)>> \o InsertDesc(Tail(sorted), e)
    ELSE <<e>> \o sorted

RECURSIVE SortDesc(_)
SortDesc(q) ==
    IF q = <<>> THEN <<>>
    ELSE InsertDesc(SortDesc(SubSeq(q, 1, Len(q) - 1)), q[Len(q)])

Take(q, k) == SubSeq(q, 1, Min(k, Len(q)))

\* variant: every topic result is appended
Merge_KeepsAll(general_results, topic_results) ==
    general_results \o topic_results

\* general_results plus the topic results whose text the general search
\* did not return
Merge(general_results, topic_results) ==
    LET seen_texts == {general_results[i].text : i \in 1..Len(general_results)}
    IN  general_results
          \o SelectSeq(topic_results, LAMBDA r : r.text \notin seen_texts)

\* variant: the floor is applied to the general results only
retrieve_FloorOnGeneralOnly(topic, general_results, topic_results, k) ==
    LET reliable ==
            SelectSeq(general_results,
                      LAMBDA r : r.relevance_score >= MIN_RELEVANCE_SCORE)
        merged == IF topic # "unknown"
                  THEN Merge(reliable, topic_results)
                  ELSE reliable
    IN  Take(SortDesc(merged), k)

retrieve(topic, general_results, topic_results, k) ==
    LET merged == IF topic # "unknown"
                  THEN Merge(general_results, topic_results)
                  ELSE general_results
        filtered_results ==
            SelectSeq(SortDesc(merged),
                      LAMBDA r : r.relevance_score >= MIN_RELEVANCE_SCORE)
    IN  Take(filtered_results, k)

\* ------------------------------------------------------------------------
\* solver_agent.py : SolverAgent.solve
\* ------------------------------------------------------------------------
RECURSIVE SumRelevance(_)
SumRelevance(q) ==
    IF q = <<>> THEN 0 ELSE Head(q).relevance_score + SumRelevance(Tail(q))

RagBlocked ==
    [final_answer |-> AnsInsufficient, steps |-> 0,
     method_used |-> "rag_blocked", confidence |-> 20]

\* lines 177-266 : the oracle's reply turned into a Solution
Solved(o, response, avg_relevance) ==
    IF response.raised THEN response
    ELSE Returned(
           [final_answer |-> IF o.has_answer THEN o.final_answer
                             ELSE AnsUnable,
            steps |-> IF o.steps = 0 THEN 1 ELSE o.steps,
            method_used |-> "jee_structured_rag_reasoning",
            confidence |-> Min(95, Max(30, avg_relevance))])

\* [called, res]; confidences are whole hundredths (the average is floored)
\* variant: no hard block on an empty context
solve_NoHardBlock(context, o) ==
    [called |-> TRUE, res |-> Solved(o, run("Solver", o), 0)]

solve(context, o) ==
    IF context = <<>>
    THEN [called |-> FALSE, res |-> Returned(RagBlocked)]
    ELSE [called |-> TRUE,
          res |-> Solved(o, run("Solver", o),
                         SumRelevance(context) \div Len(context))]

\* ------------------------------------------------------------------------
\* verifier_agent.py : VerifierAgent.verify
\* ------------------------------------------------------------------------
Verification(is_correct, confidence, issues, edge_cases) ==
    [is_correct |-> is_correct, confidence |-> confidence,
     confidence_nan |-> FALSE,
     issues_found |-> issues, edge_cases_checked |-> edge_cases]

VerifierFallback == Verification(TRUE, 70, <<"Verifier fallback">>, <<>>)

\* variant: a reply that is not a structured judgment counts as a rejection
OracleJudged_RejectsOnBadReply(o) ==
    IF run("Verifier", o).raised THEN VerifierFallback
    ELSE IF o.kind # "dict" \/ ~o.conf_ok
    THEN Verification(FALSE, 70, <<"Verifier fallback">>, <<>>)
    ELSE Verification(o.is_correct # "false",
                      Max(IF o.has_conf THEN o.confidence ELSE 70, 70),
                      <<>>, <<>>)

\* the oracle-judged branch (lines 162-183) for the reply o
OracleJudged(o) ==
    IF run("Verifier", o).raised \/ o.kind # "dict" \/ ~o.conf_ok
    THEN VerifierFallback
    ELSE IF o.has_conf /\ o.conf_nan
    \* max(nan, 0.7) is nan: no comparison with nan is true
    THEN [Verification(o.is_correct # "false", 0, <<>>, <<>>)
            EXCEPT !.confidence_nan = TRUE]
    ELSE Verification(o.is_correct # "false",
                      Max(IF o.has_conf THEN o.confidence ELSE 70, 70),
                      <<>>, <<>>)

\* lines 76-85
DeterministicResult(deterministic) ==
    IF deterministic.is_correct
    THEN Verification(TRUE, 98, <<>>, <<"Direct substitution">>)
    ELSE Verification(FALSE, 40, <<deterministic.issue>>,
                      <<"Direct substitution">>)

\* variant: an answer without a probability in [0,1] is marked incorrect
ProbabilityResult_Blocks(match) ==
    IF match.found /\ RatLeq(Rat(0, 1), match.val)
                   /\ RatLeq(match.val, Rat(1, 1))
    THEN Verification(TRUE, 85, <<>>, <<"Probability bounds check">>)
    ELSE Verification(FALSE, 40, <<>>, <<"Probability bounds check">>)

\* lines 90-113
ProbabilityResult(match) ==
    IF match.found /\ RatLeq(Rat(0, 1), match.val)
                   /\ RatLeq(match.val, Rat(1, 1))
    THEN Verification(TRUE, 85, <<>>, <<"Probability bounds check">>)
    ELSE Verification(TRUE, 75, <<>>, <<"Conceptual probability validation">>)

\* the dispatch of verify, given the outcome of the deterministic check
Dispatch(topic, final_answer, deterministic, o) ==
    IF topic \in {"algebra", "linear_algebra"} /\ deterministic.applicable
    THEN [called |-> FALSE, res |-> DeterministicResult(deterministic)]
    ELSE IF topic = "probability"
    THEN [called |-> FALSE,
          res |-> ProbabilityResult(ExtractNumber(final_answer))]
    ELSE [called |-> TRUE, res |-> OracleJudged(o)]

\* [called, res]
verify(parsed_problem, solution, o) ==
    Dispatch(parsed_problem.topic, solution.final_answer,
             _deterministic_algebra_check(parsed_problem.problem_text,
                                          solution.final_answer),
             o)

\* ------------------------------------------------------------------------
\* explainer_agent.py : ExplainerAgent.explain  (no oracle call)
\* ------------------------------------------------------------------------
explain(parsed_problem, solution) ==
    [summary_answer |-> solution.final_answer,
     detailed_steps |-> solution.steps,
     related_problems |-> parsed_problem.topic]

\* ------------------------------------------------------------------------
\* leader_agent.py : LeaderAgent
\* ------------------------------------------------------------------------
Agents ==
    {"Parser", "Strategy", "Router", "Retriever", "Solver", "Verifier",
     "Explainer"}

_create_trace(agent_name) ==
    [agent_name |-> agent_name, status |-> "running", completed_at |-> FALSE]

_complete_trace(trace) ==
    [trace EXCEPT !.status = "completed", !.completed_at = TRUE]

CompleteLast(trs) == [trs EXCEPT ![Len(trs)] = _complete_trace(@)]

error_trace ==
    [agent_name |-> "System", status |-> "failed", completed_at |-> TRUE]

FinalResult(status, pp, sol, ver, expl, reason, message) ==
    [status |-> status, parsed_problem |-> pp, solution |-> sol,
     verification |-> ver, explanation |-> expl, hitl_reason |-> reason,
     error_message |-> message]

\* lines 54-60
ClarificationResult(pp) ==
    FinalResult("needs_hitl", Some(pp), None, None, None,
                pp.clarification_reason, <<>>)

\* lines 134-137
\* variant: the gate covers algebra only
HitlPolicy_AlgebraOnly(pp, ver) ==
    /\ pp.topic = "algebra"
    /\ ~ver.confidence_nan
    /\ ver.confidence < VERIFIER_CONFIDENCE_THRESHOLD

HitlPolicy(pp, ver) ==
    /\ pp.topic \in {"algebra", "linear_algebra"}
    /\ ~ver.confidence_nan
    /\ ver.confidence < VERIFIER_CONFIDENCE_THRESHOLD

\* lines 138-146
\* variant: the result keeps the verification but not the solution
LowConfidenceResult_DropsSolution(pp, sol, ver) ==
    FinalResult("needs_hitl", Some(pp), None, Some(ver), None,
                "Low verifier confidence", <<>>)

LowConfidenceResult(pp, sol, ver) ==
    FinalResult("needs_hitl", Some(pp), Some(sol), Some(ver), None,
                "Low verifier confidence", <<>>)

\* lines 165-173
SuccessResult(pp, sol, ver, expl) ==
    FinalResult("success", Some(pp), Some(sol), Some(ver), Some(expl),
                NULL, <<>>)

\* lines 187-192 : error_message = str(e)
\* variant: the exception's message is not carried
ErrorResult_LosesMessage(e) ==
    FinalResult("error", None, None, None, None, NULL, <<>>)

ErrorResult(e) ==
    FinalResult("error", None, None, None, None, NULL, e)

\* the stage the pipeline enters after a stage has completed
\* variant: Router hands over to Solver, Retriever never runs
NextStage_SkipsRetriever(stage) ==
    CASE stage = "Parser" -> "Strategy"
      [] stage = "Strategy" -> "Router"
      [] stage = "Router" -> "Solver"
      [] stage = "Solver" -> "Verifier"
      [] stage = "Verifier" -> "Explainer"
      [] OTHER -> "done"

NextStage(stage) ==
    CASE stage = "Parser" -> "Strategy"
      [] stage = "Strategy" -> "Router"
      [] stage = "Router" -> "Retriever"
      [] stage = "Retriever" -> "Solver"
      [] stage = "Solver" -> "Verifier"
      [] stage = "Verifier" -> "Explainer"
      [] OTHER -> "done"

\* what the collaborator did on the call, as the stage sees it
ReplyClass(o) ==
    IF o.kind \in {"raise", "empty", "garbage", "nondict"} THEN o.kind
    ELSE IF o.kind = "dict" /\ "conf_ok" \in DOMAIN o /\ ~o.conf_ok
    THEN "badfield"
    ELSE "ok"

VARIABLES
    raw_input,          \* RawInput.content
    pc,                 \* the stage solve() is about to run, or "done"
    traces,             \* the list of AgentTrace
    parsed_problem,     \* optional ParsedProblem
    strategy,           \* optional strategy dict
    routing_info,       \* optional routing dict
    retrieved_context,  \* list of RetrievedContext
    solution,           \* optional Solution
    verification,       \* optional Verification
    result,             \* optional FinalResult: what solve() returned
    calls,              \* oracle invocations made by each agent
    oracle_log,         \* what the collaborator did for each stage
    exc                 \* optional [stage, msg]: the exception solve() caught

\* one call of RAGRetriever.retrieve, taken on its own
VARIABLES
    request,            \* optional [topic, k, index_up, general_hits, topic_hits]
    returned            \* optional [raised, value]: how retrieve() ended

retrieval_vars == <<request, returned>>

RetrievalIdle == request = None /\ returned = None

\* VerifierAgent.verify called repeatedly on one problem and solution
VARIABLES
    vcase,              \* optional [topic, problem_text, final_answer]
    vlog                \* per call: [oracle, called, res]

verify_vars == <<vcase, vlog>>

VerifyIdle == vcase = None /\ vlog = <<>>

\* MemoryStore: the interactions table, the feedback_log table, the
\* problem_memory collection, and the calls in flight
VARIABLES
    rows,               \* interactions, by id (AUTOINCREMENT from 1)
    feedback_log,       \* the feedback_log table
    index,              \* the entries of memory_collection
    writers,            \* per caller of save_interaction: [pc, id, entry]
    found,              \* optional [raised, value]: how the call just
                        \* made ended, when it was find_similar_problems
    rejected            \* optional [raised]: how the call just made
                        \* ended, when it was store_failure

store_vars == <<rows, feedback_log, index, writers, found, rejected>>

\* the callers whose save_interaction calls may be in flight at once
Writers == {"w1", "w2"}

NoEntry == [parsed_problem |-> NULL, user_feedback |-> NULL]

WriterIdle == [pc |-> "idle", id |-> 0, entry |-> NoEntry]

StoreIdle ==
    /\ rows = <<>>
    /\ feedback_log = <<>>
    /\ index = {}
    /\ writers = [w \in Writers |-> WriterIdle]
    /\ found = None
    /\ rejected = None

\* AdaptiveLearner: the weight table and the calls in flight
VARIABLES
    strategy_weights,   \* weight of each (topic, question_type), in halves
    learners,           \* per caller of record_strategy_outcome:
                        \* [pc, pair, success, seen]
    outcomes,           \* the record_strategy_outcome calls made so far
    load_raised         \* the last construction of the learner raised

learn_vars == <<strategy_weights, learners, outcomes, load_raised>>

\* the (topic, question_type) pairs outcomes are recorded for
LearnPairs == {<<"algebra", "solve_equation">>, <<"calculus", "differentiate">>}

\* the callers whose record_strategy_outcome calls may be in flight at once
LearnThreads == {"t1", "t2"}

NoWeights == [p \in LearnPairs |-> 0]

LearnerIdle ==
    [pc |-> "idle", pair |-> <<"none", "none">>, success |-> FALSE, seen |-> 0]

LearnIdle ==
    /\ strategy_weights = NoWeights
    /\ learners = [t \in LearnThreads |-> LearnerIdle]
    /\ outcomes = <<>>
    /\ load_raised = FALSE

solve_vars ==
    <<raw_input, pc, traces, parsed_problem, strategy, routing_info,
      retrieved_context, solution, verification, result, calls, oracle_log,
      exc>>

\* what a request to LeaderAgent.solve leaves alone
outside_solve == <<retrieval_vars, verify_vars, store_vars, learn_vars>>

SolveIdle ==
    /\ raw_input = <<>>
    /\ pc = "idle"
    /\ traces = <<>>
    /\ parsed_problem = None
    /\ strategy = None
    /\ routing_info = None
    /\ retrieved_context = <<>>
    /\ solution = None
    /\ verification = None
    /\ result = None
    /\ calls = [a \in Agents |-> 0]
    /\ oracle_log = [a \in Agents |-> "none"]
    /\ exc = None

vars == <<solve_vars, outside_solve>>

Init ==
    /\ raw_input \in RawInputs
    /\ pc = "Parser"
    /\ traces = <<>>
    /\ parsed_problem = None
    /\ strategy = None
    /\ routing_info = None
    /\ retrieved_context = <<>>
    /\ solution = None
    /\ verification = None
    /\ result = None
    /\ calls = [a \in Agents |-> 0]
    /\ oracle_log = [a \in Agents |-> "none"]
    /\ exc = None
    /\ RetrievalIdle
    /\ VerifyIdle
    /\ StoreIdle
    /\ LearnIdle

\* lines 175-192 : the except branch, entered while the trace of `stage`
\* (already appended) is still running
\* variant: the traces collected so far are dropped
Except_DropsTraces(stage, e) ==
    /\ traces' = <<error_trace>>
    /\ result' = Some(ErrorResult(e))
    /\ exc' = Some([stage |-> stage, msg |-> e])
    /\ pc' = "done"

Except(stage, e) ==
    /\ traces' = Append(Append(traces, _create_trace(stage)), error_trace)
    /\ result' = Some(ErrorResult(e))
    /\ exc' = Some([stage |-> stage, msg |-> e])
    /\ pc' = "done"

\* the stage completed: its trace is appended and completed
Completed(stage) == CompleteLast(Append(traces, _create_trace(stage)))

Called(stage, called, o) ==
    /\ calls' = IF called THEN [calls EXCEPT ![stage] = @ + RunAttempts]
                ELSE calls
    /\ oracle_log' = IF called THEN [oracle_log EXCEPT ![stage] = ReplyClass(o)]
                     ELSE oracle_log

\* STEP 1 (lines 47-60)
ParserStep(o, called, res) ==
    /\ Called("Parser", called, o)
    /\ IF res.raised
       THEN /\ Except("Parser", res.msg)
            /\ UNCHANGED parsed_problem
       ELSE /\ parsed_problem' = res.value
            /\ traces' = Completed("Parser")
            /\ exc' = exc
            /\ IF res.value[1].needs_clarification
               THEN /\ result' = Some(ClarificationResult(res.value[1]))
                    /\ pc' = "done"
               ELSE /\ result' = result
                    /\ pc' = NextStage("Parser")

ParserCall(o, p) == ParserStep(o, p.called, p.res)

ParserStage ==
    /\ pc = "Parser"
    /\ UNCHANGED outside_solve
    /\ \E o \in ParserReplies : ParserCall(o, _parse(raw_input, o))
    /\ UNCHANGED <<raw_input, strategy, routing_info, retrieved_context,
                   solution, verification>>

\* STEP 2 (lines 65-72)
StrategyStep(o, r) ==
    /\ Called("Strategy", TRUE, o)
    /\ IF r.raised
       THEN /\ Except("Strategy", r.msg)
            /\ UNCHANGED strategy
       ELSE /\ strategy' = r.value
            /\ traces' = Completed("Strategy")
            /\ pc' = NextStage("Strategy")
            /\ UNCHANGED <<result, exc>>

StrategyStage ==
    /\ pc = "Strategy"
    /\ UNCHANGED outside_solve
    /\ \E o \in StrategyReplies : StrategyStep(o, StrategyProcess(o))
    /\ UNCHANGED <<raw_input, parsed_problem, routing_info, retrieved_context,
                   solution, verification>>

\* STEP 3 (lines 77-84) : routing_info.get(...) raises on a non-dict
RouterStep(o, r) ==
    /\ Called("Router", TRUE, o)
    /\ routing_info' = r.value
    /\ IF ~r.value[1].is_dict
       THEN Except("Router", <<"Router", "object has no attribute get">>)
       ELSE /\ traces' = Completed("Router")
            /\ pc' = NextStage("Router")
            /\ UNCHANGED <<result, exc>>

RouterStage ==
    /\ pc = "Router"
    /\ UNCHANGED outside_solve
    /\ \E o \in RouterReplies : RouterStep(o, route(o))
    /\ UNCHANGED <<raw_input, parsed_problem, strategy, retrieved_context,
                   solution, verification>>

\* STEP 4 (lines 89-96) : the vector index raises or answers both searches
RetrieverStage ==
    /\ pc = "Retriever"
    /\ UNCHANGED outside_solve
    /\ \/ /\ Except("Retriever", <<"Retriever", "vector index query failed">>)
          /\ oracle_log' = [oracle_log EXCEPT !["Retriever"] = "raise"]
          /\ UNCHANGED retrieved_context
       \/ \E general_results \in IndexResults(MaxGeneral),
             topic_results \in IndexResults(MaxTopic) :
            /\ retrieved_context' =
                  retrieve(parsed_problem[1].topic, general_results,
                           topic_results, DEFAULT_K)
            /\ oracle_log' = [oracle_log EXCEPT !["Retriever"] = "ok"]
            /\ traces' = Completed("Retriever")
            /\ pc' = NextStage("Retriever")
            /\ UNCHANGED <<result, exc>>
    /\ UNCHANGED <<raw_input, parsed_problem, strategy, routing_info,
                   solution, verification, calls>>

\* STEP 5 (lines 101-113)
SolverStep(o, called, res) ==
    /\ Called("Solver", called, o)
    /\ IF res.raised
       THEN /\ Except("Solver", res.msg)
            /\ UNCHANGED solution
       ELSE /\ solution' = res.value
            /\ traces' = Completed("Solver")
            /\ pc' = NextStage("Solver")
            /\ UNCHANGED <<result, exc>>

SolverCall(o, r) == SolverStep(o, r.called, r.res)

SolverStage ==
    /\ pc = "Solver"
    /\ UNCHANGED outside_solve
    /\ \E o \in SolverReplies : SolverCall(o, solve(retrieved_context, o))
    /\ UNCHANGED <<raw_input, parsed_problem, strategy, routing_info,
                   retrieved_context, verification>>

\* STEP 6 and the HITL policy (lines 118-146)
VerifierStep(o, called, ver) ==
    /\ Called("Verifier", called, o)
    /\ verification' = Some(ver)
    /\ traces' = Completed("Verifier")
    /\ IF HitlPolicy(parsed_problem[1], ver)
       THEN /\ result' = Some(LowConfidenceResult(parsed_problem[1],
                                                  solution[1], ver))
            /\ pc' = "done"
       ELSE /\ result' = result
            /\ pc' = NextStage("Verifier")

VerifierCall(o, r) == VerifierStep(o, r.called, r.res)

VerifierStage ==
    /\ pc = "Verifier"
    /\ UNCHANGED outside_solve
    /\ \E o \in VerifierReplies :
         VerifierCall(o, verify(parsed_problem[1], solution[1], o))
    /\ UNCHANGED <<raw_input, parsed_problem, strategy, routing_info,
                   retrieved_context, solution, exc>>

\* STEP 7 (lines 151-173)
ExplainerStage ==
    /\ pc = "Explainer"
    /\ UNCHANGED outside_solve
    /\ traces' = Completed("Explainer")
    /\ result' = Some(SuccessResult(parsed_problem[1], solution[1],
                                    verification[1],
                                    explain(parsed_problem[1], solution[1])))
    /\ pc' = NextStage("Explainer")
    /\ UNCHANGED <<raw_input, parsed_problem, strategy, routing_info,
                   retrieved_context, solution, verification, calls,
                   oracle_log, exc>>

Next ==
    \/ ParserStage
    \/ StrategyStage
    \/ RouterStage
    \/ RetrieverStage
    \/ SolverStage
    \/ VerifierStage
    \/ ExplainerStage

Spec == Init /\ [][Next]_vars

\* the scheduling of solve(): a started request runs every stage to its end
FairSpec == Spec /\ WF_vars(Next)

\* ========================================================================
\* RAGRetriever.retrieve on its own: any index content, any k
\* ========================================================================
\* cosine distances the index reports, in hundredths
Distances == {10, 65, 80, 120}

Hits == [text : ChunkTexts, distance : Distances]

\* a query is answered with at most n hits, nearest first
IndexHits(n) ==
    {q \in SeqsUpTo(Hits, n) :
        /\ DistinctTexts(q)
        /\ \A i \in 1..(Len(q) - 1) : q[i].distance <= q[i + 1].distance}

\* vectorstore.py : VectorStore.search, relevance_score = 1.0 - distance
search(hits) ==
    [i \in 1..Len(hits) |->
        [text |-> hits[i].text, relevance_score |-> 100 - hits[i].distance]]

Requests ==
    UNION {[topic : {"algebra", "unknown"}, k : {k}, index_up : BOOLEAN,
            general_hits : IndexHits(Min(k, MaxHits)),
            topic_hits : IndexHits(Min(TOPIC_K, MaxHits))] : k \in 1..MaxK}

RetrievalInit ==
    /\ request \in {Some(r) : r \in Requests}
    /\ returned = None
    /\ SolveIdle
    /\ VerifyIdle
    /\ StoreIdle
    /\ LearnIdle

\* retrieve() has no handler of its own: a failing index query propagates
Retrieved(r) ==
    IF r.index_up
    THEN [raised |-> FALSE,
          value |-> retrieve(r.topic, search(r.general_hits),
                             search(r.topic_hits), r.k)]
    ELSE [raised |-> TRUE, value |-> <<>>]

RetrieveCall ==
    /\ returned = None
    /\ returned' = Some(Retrieved(request[1]))
    /\ UNCHANGED <<request, solve_vars, verify_vars, store_vars, learn_vars>>

RetrievalNext == RetrieveCall

RetrievalSpec == RetrievalInit /\ [][RetrievalNext]_vars

\* ========================================================================
\* VerifierAgent.verify on its own: any topic, problem text, final answer
\* and oracle reply, called more than once on the same inputs
\* ========================================================================
VerifyTopics ==
    {"algebra", "linear_algebra", "probability", "calculus", "unknown"}

VerifyTexts ==
    {TxtEquation, TxtCompact, TxtThirdEq, TxtDoubleEq, TxtParen, TxtTwoEq,
     TxtBadExpr, TxtWord, TxtKeyword}

VerifyAnswers ==
    {AnsFour, AnsOne, AnsHalf, AnsThird, AnsFracHalf, AnsNegative, AnsWords,
     AnsUnable}

VerifyInit ==
    /\ vcase \in {Some(c) : c \in [topic : VerifyTopics,
                                   problem_text : VerifyTexts,
                                   final_answer : VerifyAnswers]}
    /\ vlog = <<>>
    /\ SolveIdle
    /\ RetrievalIdle
    /\ StoreIdle
    /\ LearnIdle

VerifyStep(o, v) ==
    vlog' = Append(vlog, [oracle |-> ReplyClass(o), called |-> v.called,
                          res |-> v.res])

VerifyCall ==
    /\ Len(vlog) < MaxVerifyCalls
    /\ \E o \in VerifierReplies : VerifyStep(o, verify(vcase[1], vcase[1], o))
    /\ UNCHANGED <<vcase, solve_vars, retrieval_vars, store_vars, learn_vars>>

VerifyNext == VerifyCall

VerifySpec == VerifyInit /\ [][VerifyNext]_vars

\* ========================================================================
\* memory/store.py : MemoryStore
\* ========================================================================
\* parsed_problem as stored: the problem text (store_success, store_failure
\* pass problem_text), or a JSON document naming the question type
TextProblem == "2x+5=13"
JsonProblem == "{\"question_type\": \"solve_equation\"}"

Problems == {TextProblem, JsonProblem}

\* the MemoryEntry handed to save_interaction; the other fields are fixed
Entries ==
    {[parsed_problem |-> TextProblem, user_feedback |-> "correct"],
     [parsed_problem |-> JsonProblem, user_feedback |-> NULL]}

\* the UserFeedback handed to save_feedback
Feedbacks ==
    {[feedback_type |-> "correct", corrected_solution |-> NULL],
     [feedback_type |-> "incorrect", corrected_solution |-> "fix"]}

\* line 189 : embedding_id = f"interaction_{interaction_id}"
EmbeddingId(interaction_id) == <<"interaction", interaction_id>>

\* variant: the row is inserted with its embedding_id already filled in
InsertedRow_WithEmbeddingId(interaction_id, entry) ==
    [timestamp |-> "t0", input_type |-> "text", raw_input |-> "raw",
     parsed_problem |-> entry.parsed_problem, topic |-> "algebra",
     solution |-> "s1", verification_score |-> 98,
     user_feedback |-> entry.user_feedback, corrected_solution |-> NULL,
     embedding_id |-> EmbeddingId(interaction_id)]

\* lines 167-185 : INSERT INTO interactions (...), commit
InsertedRow(interaction_id, entry) ==
    [timestamp |-> "t0", input_type |-> "text", raw_input |-> "raw",
     parsed_problem |-> entry.parsed_problem, topic |-> "algebra",
     solution |-> "s1", verification_score |-> 98,
     user_feedback |-> entry.user_feedback, corrected_solution |-> NULL,
     embedding_id |-> None]

\* lines 192-204 : what memory_collection.add stores
IndexEntry(interaction_id, entry) ==
    [id |-> EmbeddingId(interaction_id), interaction_id |-> interaction_id,
     document |-> entry.parsed_problem, topic |-> "algebra",
     solution |-> "s1",
     feedback |-> IF entry.user_feedback = NULL THEN ""
                  ELSE entry.user_feedback]

\* lines 206-210 : UPDATE interactions SET embedding_id = ? WHERE id = ?
Backfilled(table, interaction_id) ==
    [table EXCEPT ![interaction_id].embedding_id = EmbeddingId(interaction_id)]

\* variant: the feedback also replaces the stored solution
FeedbackApplied_RewritesSolution(table, interaction_id, feedback) ==
    IF interaction_id \in DOMAIN table
    THEN [table EXCEPT
            ![interaction_id].user_feedback = feedback.feedback_type,
            ![interaction_id].corrected_solution = feedback.corrected_solution,
            ![interaction_id].solution =
                IF feedback.corrected_solution = NULL THEN @
                ELSE feedback.corrected_solution]
    ELSE table

\* lines 231-242 : UPDATE interactions SET user_feedback = ?,
\* corrected_solution = ? WHERE id = ?
FeedbackApplied(table, interaction_id, feedback) ==
    IF interaction_id \in DOMAIN table
    THEN [table EXCEPT
            ![interaction_id].user_feedback = feedback.feedback_type,
            ![interaction_id].corrected_solution = feedback.corrected_solution]
    ELSE table

\* lines 259-266 : the dict built from one hit
Similar(e) ==
    [problem |-> e.document, solution |-> e.solution, topic |-> e.topic,
     feedback |-> e.feedback]

\* variant: the search reads the interactions table
Searched_Table(table, collection) ==
    {[id |-> EmbeddingId(i), interaction_id |-> i,
      document |-> table[i].parsed_problem, topic |-> table[i].topic,
      solution |-> table[i].solution,
      feedback |-> IF table[i].user_feedback = NULL THEN ""
                   ELSE table[i].user_feedback] : i \in DOMAIN table}

\* lines 253-255 : the query runs against memory_collection only
Searched(table, collection) == collection

\* the answers of a query for k neighbours: min(k, size) distinct
\* entries, in an order the embeddings decide
QueryAnswers(entries, k) ==
    {q \in SeqsUpTo(entries, k) :
        /\ Len(q) = Min(k, Cardinality(entries))
        /\ \A i, j \in 1..Len(q) : i # j => q[i] # q[j]}

StoreInit ==
    /\ StoreIdle
    /\ SolveIdle
    /\ RetrievalIdle
    /\ VerifyIdle
    /\ LearnIdle

outside_store == <<solve_vars, retrieval_vars, verify_vars, learn_vars>>

\* lines 167-187 : the row is inserted and committed, lastrowid is read
SaveInsert(w) ==
    /\ writers[w].pc = "idle"
    /\ Len(rows) < MaxRows
    /\ \E entry \in Entries :
         /\ rows' = Append(rows, InsertedRow(Len(rows) + 1, entry))
         /\ writers' = [writers EXCEPT ![w] =
                           [pc |-> "embed", id |-> Len(rows) + 1,
                            entry |-> entry]]
    /\ found' = None
    /\ rejected' = None
    /\ UNCHANGED <<feedback_log, index, outside_store>>

\* the call ends with an exception: nothing is undone
SaveRaises(w) == writers' = [writers EXCEPT ![w] = WriterIdle]

\* line 190 : embed_single, which may raise
SaveEmbed(w) ==
    /\ writers[w].pc = "embed"
    /\ \/ writers' = [writers EXCEPT ![w].pc = "add"]
       \/ SaveRaises(w)
    /\ found' = None
    /\ rejected' = None
    /\ UNCHANGED <<rows, feedback_log, index, outside_store>>

\* lines 192-204 : memory_collection.add, which may raise
SaveIndexAdd(w) ==
    /\ writers[w].pc = "add"
    /\ \/ /\ index' = index \cup {IndexEntry(writers[w].id, writers[w].entry)}
          /\ writers' = [writers EXCEPT ![w].pc = "backfill"]
       \/ /\ SaveRaises(w)
          /\ UNCHANGED index
    /\ found' = None
    /\ rejected' = None
    /\ UNCHANGED <<rows, feedback_log, outside_store>>

\* lines 206-212 : embedding_id is backfilled, the id is returned
SaveBackfill(w) ==
    /\ writers[w].pc = "backfill"
    /\ rows' = Backfilled(rows, writers[w].id)
    /\ writers' = [writers EXCEPT ![w] = WriterIdle]
    /\ found' = None
    /\ rejected' = None
    /\ UNCHANGED <<feedback_log, index, outside_store>>

\* lines 214-244 : save_feedback, for any interaction_id the caller names
SaveFeedback ==
    /\ Len(feedback_log) < MaxFeedback
    /\ \E interaction_id \in 1..MaxRows, feedback \in Feedbacks :
         /\ feedback_log' =
               Append(feedback_log,
                      [interaction_id |-> interaction_id,
                       feedback_type |-> feedback.feedback_type,
                       corrected_solution |-> feedback.corrected_solution])
         /\ rows' = FeedbackApplied(rows, interaction_id, feedback)
    /\ found' = None
    /\ rejected' = None
    /\ UNCHANGED <<index, writers, outside_store>>

FoundAmong(entries) ==
    \E k \in 1..MaxRows : \E q \in QueryAnswers(entries, k) :
       found' = Some([raised |-> FALSE,
                      value |-> [i \in 1..Len(q) |-> Similar(q[i])]])

\* lines 250-269 : find_similar_problems; embed_single or the query may raise
FindSimilar ==
    /\ \/ FoundAmong(Searched(rows, index))
       \/ found' = Some([raised |-> TRUE, value |-> <<>>])
    /\ rejected' = None
    /\ UNCHANGED <<rows, feedback_log, index, writers, outside_store>>

\* schemas.py lines 108-120 : MemoryEntry(...) validates its fields;
\* verification_score is a required float
MemoryEntry(parsed, verification_score, user_feedback) ==
    IF verification_score = NULL
    THEN Raised(<<"MemoryEntry", "validation error">>)
    ELSE Returned([parsed_problem |-> parsed,
                   user_feedback |-> user_feedback])

\* lines 150-160 : save_interaction and save_feedback, run to the end
Rejection(interaction_id, entry, correction) ==
    /\ rows' = FeedbackApplied(
                  Backfilled(Append(rows, InsertedRow(interaction_id, entry)),
                             interaction_id),
                  interaction_id,
                  [feedback_type |-> "incorrect",
                   corrected_solution |-> correction])
    /\ index' = index \cup {IndexEntry(interaction_id, entry)}
    /\ feedback_log' =
          Append(feedback_log,
                 [interaction_id |-> interaction_id,
                  feedback_type |-> "incorrect",
                  corrected_solution |-> correction])
    /\ rejected' = Some([raised |-> FALSE])

StoreFailureWith(entry, correction) ==
    IF entry.raised
    THEN /\ rejected' = Some([raised |-> TRUE])
         /\ UNCHANGED <<rows, feedback_log, index>>
    ELSE Rejection(Len(rows) + 1, entry.value[1], correction)

\* lines 132-160 : store_failure, the entry built with
\* verification_score=None
StoreFailure ==
    /\ \E parsed \in Problems :
          StoreFailureWith(MemoryEntry(parsed, NULL, "incorrect"), "fix")
    /\ found' = None
    /\ UNCHANGED <<writers, outside_store>>

StoreNext ==
    \/ StoreFailure
    \/ \E w \in Writers : SaveInsert(w)
    \/ \E w \in Writers : SaveEmbed(w)
    \/ \E w \in Writers : SaveIndexAdd(w)
    \/ \E w \in Writers : SaveBackfill(w)
    \/ SaveFeedback
    \/ FindSimilar

StoreSpec == StoreInit /\ [][StoreNext]_vars

\* ========================================================================
\* memory/learning.py : AdaptiveLearner
\* ========================================================================
\* line 502 : weight_delta = 1.0 if success else -0.5, in halves
\* variant: a failure takes back what a success adds
weight_delta_Symmetric(success) == IF success THEN 2 ELSE -2

weight_delta(success) == IF success THEN 2 ELSE -1

\* line 486 : self.strategy_weights[topic].get(question_type, 0)
weight_for(weights, pair) == weights[pair]

\* lines 432, 438 : json_extract(parsed_problem, '$.question_type'); SQLite
\* raises "malformed JSON" on a text that is not JSON
json_extract_question_type(parsed) ==
    IF parsed = JsonProblem THEN Returned("solve_equation")
    ELSE Raised(<<"OperationalError", "malformed JSON">>)

\* lines 438-441 : one fetched row added to the weights
LoadedRow(weights, row, q_type) ==
    IF q_type.raised THEN Raised(q_type.msg)
    ELSE IF <<row.topic, q_type.value[1]>> \notin LearnPairs
    THEN Returned(weights)
    ELSE Returned([weights EXCEPT ![<<row.topic, q_type.value[1]>>] =
                      @ + IF row.user_feedback = "correct" THEN 2 ELSE -1])

\* lines 430-441 : the rows WHERE user_feedback IS NOT NULL, in id order
RECURSIVE LoadFrom(_, _, _)
LoadFrom(table, i, acc) ==
    IF acc.raised \/ i > Len(table) THEN acc
    ELSE IF table[i].user_feedback = NULL THEN LoadFrom(table, i + 1, acc)
    ELSE LoadFrom(table, i + 1,
                  LoadedRow(acc.value[1], table[i],
                            json_extract_question_type(
                                table[i].parsed_problem)))

\* lines 428-441 : _load_strategy_weights on a fresh table of weights
_load_strategy_weights(table) == LoadFrom(table, 1, Returned(NoWeights))

outside_learn == <<solve_vars, retrieval_vars, verify_vars, store_vars>>

\* lines 500-503, first half of `+=` : the current weight is read
RecordLoad(t) ==
    /\ learners[t].pc = "idle"
    /\ ~load_raised
    /\ Len(outcomes) < MaxOutcomes
    /\ \E pair \in LearnPairs, success \in BOOLEAN :
         /\ learners' = [learners EXCEPT ![t] =
                            [pc |-> "store", pair |-> pair,
                             success |-> success,
                             seen |-> weight_for(strategy_weights, pair)]]
         /\ outcomes' = Append(outcomes, [pair |-> pair, success |-> success])
    /\ UNCHANGED <<strategy_weights, load_raised, outside_learn>>

\* lines 500-503, second half of `+=` : the sum is stored
RecordStore(t) ==
    /\ learners[t].pc = "store"
    /\ strategy_weights' =
          [strategy_weights EXCEPT ![learners[t].pair] =
              learners[t].seen + weight_delta(learners[t].success)]
    /\ learners' = [learners EXCEPT ![t] = LearnerIdle]
    /\ UNCHANGED <<outcomes, load_raised, outside_learn>>

LearnInit ==
    /\ LearnIdle
    /\ SolveIdle
    /\ RetrievalIdle
    /\ VerifyIdle
    /\ StoreIdle

LearnNext ==
    \/ \E t \in LearnThreads : RecordLoad(t)
    \/ \E t \in LearnThreads : RecordStore(t)

LearnSpec == LearnInit /\ [][LearnNext]_vars

\* lines 423-426 : the process starts again and AdaptiveLearner is built
\* from the interactions table
Restarted(loaded) ==
    /\ load_raised' = loaded.raised
    /\ strategy_weights' = IF loaded.raised THEN NoWeights
                           ELSE loaded.value[1]

Restart ==
    /\ \A t \in LearnThreads : learners[t].pc = "idle"
    /\ \A w \in Writers : writers[w].pc = "idle"
    /\ Restarted(_load_strategy_weights(rows))
    /\ UNCHANGED <<learners, outcomes, outside_learn>>

\* one process: the store and the learner, each used by one caller
CacheNext ==
    \/ SaveInsert("w1")
    \/ SaveEmbed("w1")
    \/ SaveIndexAdd("w1")
    \/ SaveBackfill("w1")
    \/ SaveFeedback
    \/ Restart
    \/ RecordLoad("t1")
    \/ RecordStore("t1")

CacheSpec == LearnInit /\ [][CacheNext]_vars

\* ========================================================================
\* Properties
\* ========================================================================
Status == IF result = None THEN "none" ELSE result[1].status

TraceNames == [i \in 1..Len(traces) |-> traces[i].agent_name]

FixedOrder ==
    <<"Parser", "Strategy", "Router", "Retriever", "Solver", "Verifier",
      "Explainer">>

IsPrefix(a, b) == Len(a) <= Len(b) /\ SubSeq(b, 1, Len(a)) = a

\* the traces of the stages, without the System trace of the except branch
StageTraceNames == SelectSeq(TraceNames, LAMBDA n : n # "System")

\* the position of a stage in the pipeline
StageIndex(stage) == CHOOSE i \in 1..Len(FixedOrder) : FixedOrder[i] = stage

\* the trace list of a request that failed in `stage`
TracesOfFailureIn(stage) == Append(SubSeq(FixedOrder, 1, StageIndex(stage)), "System")

\* ------------------------------------------------------------------------
\* C1: solve always hands back a FinalResult whose status is success,
\* needs_hitl or error, exactly when the pipeline has stopped; and every
\* exception a stage raises into solve ends the request with status error
\* and error_message equal to the exception's message.
C1_SolveAlwaysReturns ==
    /\ (pc = "done") <=> (result # None)
    /\ result # None => result[1].status \in {"success", "needs_hitl", "error"}
    /\ exc # None =>
         /\ Status = "error"
         /\ result[1].error_message = exc[1].msg
         /\ exc[1].msg # <<>>
    /\ Status = "error" => exc # None

C1_Witness ==
    /\ exc # None
    /\ exc[1].stage = "Solver"
    /\ Status = "error"
    /\ result[1].error_message = <<"Solver", "agent execution failed">>

\* ------------------------------------------------------------------------
\* C2: whenever the topic is algebra or linear_algebra and the Verification
\* produced by Verify has confidence below 0.80, the request has ended with
\* status needs_hitl and reason "Low verifier confidence".
C2_ConfidenceGate ==
    ( /\ verification # None
      /\ parsed_problem[1].topic \in {"algebra", "linear_algebra"}
      /\ ~verification[1].confidence_nan
      /\ verification[1].confidence < 80 )
    => /\ pc = "done"
       /\ Status = "needs_hitl"
       /\ result[1].hitl_reason = "Low verifier confidence"

C2_Witness ==
    /\ verification # None
    /\ parsed_problem[1].topic = "linear_algebra"
    /\ verification[1].confidence = 70
    /\ Status = "needs_hitl"

\* ------------------------------------------------------------------------
\* C3: in every step of a request the stages that have run are a prefix of
\* Parser, Strategy, Router, Retriever, Solver, Verifier, Explainer (each at
\* most once, in that order, a System trace only last); once the result is
\* assigned neither it nor the trace list changes, and the pipeline is done.
StagesInOrder ==
    /\ IsPrefix(StageTraceNames, FixedOrder)
    /\ \A i \in 1..Len(traces) :
          traces[i].agent_name = "System" => i = Len(traces)

C3_StagesOnceInOrder ==
    [][ /\ StagesInOrder'
        /\ result # None => (result' = result /\ traces' = traces)
        /\ result' # None => pc' = "done" ]_vars

C3_Witness ==
    /\ pc = "done"
    /\ Status = "success"
    /\ TraceNames = FixedOrder

\* ------------------------------------------------------------------------
\* C4: an input that is empty, blank, not math-like, has unbalanced
\* brackets or holds an invalid symbol never leaves the Parser stage; when
\* the request has ended the status is needs_hitl, the reason states the
\* failed check, no oracle was called and only the Parser trace exists.
RejectionReason(content) ==
    CASE content \in {TxtEmpty, TxtBlank} ->
           "Input is empty. Please enter a valid math problem."
      [] content = TxtGibberish ->
           "Input does not appear to be a math problem."
      [] content = TxtUnbalanced ->
           "Unbalanced brackets or parentheses detected."
      [] content = TxtInvalidSym ->
           "Invalid or unclear symbols detected. Please rewrite the problem."
      [] OTHER -> NULL

C4_LocalRejection ==
    RejectionReason(raw_input) # NULL =>
      /\ pc \in {"Parser", "done"}
      /\ \A a \in Agents : calls[a] = 0 /\ oracle_log[a] = "none"
      /\ pc = "done" =>
           /\ Status = "needs_hitl"
           /\ result[1].hitl_reason = RejectionReason(raw_input)
           /\ TraceNames = <<"Parser">>

C4_Witness ==
    /\ raw_input = TxtUnbalanced
    /\ pc = "done"
    /\ Status = "needs_hitl"
    /\ result[1].hitl_reason = "Unbalanced brackets or parentheses detected."

\* ------------------------------------------------------------------------
\* C5: for the text "If 2x + 5 = 13, find x" classified as algebra, with a
\* non-empty retrieval and the solver's final answer "x = 4", the request
\* ends in success, verified by the deterministic path (no oracle call in
\* Verify) with confidence 0.98.
C5_WordProblemVerifiedDeterministically ==
    ( /\ raw_input = TxtWord
      /\ pc = "done"
      /\ parsed_problem # None
      /\ parsed_problem[1].topic = "algebra"
      /\ ~parsed_problem[1].needs_clarification
      /\ retrieved_context # <<>>
      /\ solution # None
      /\ solution[1].final_answer = AnsFour )
    => /\ Status = "success"
       /\ calls["Verifier"] = 0
       /\ result[1].verification[1].confidence = 98

\* ------------------------------------------------------------------------
\* C6: when Retrieve has returned no chunk, the request is never in status
\* error, the Solver has made no oracle call, and the Solution (once Solve
\* has run) is the refusal: "Insufficient reference material to solve
\* reliably.", no steps, confidence 0.2.
RetrievedNothing == oracle_log["Retriever"] = "ok" /\ retrieved_context = <<>>

C7_PlanFailureNeverAborts ==
    ( /\ pc = "done"
      /\ \/ oracle_log["Strategy"] \in {"raise", "garbage"}
         \/ oracle_log["Router"] \in {"raise", "garbage"} )
    => \E i \in 1..Len(traces) : traces[i].agent_name = "Retriever"

\* ------------------------------------------------------------------------
\* C8: no request ends in status error raised by a stage (Parser, Strategy,
\* Router, Solver, Verifier) whose oracle reply was non-empty but did not
\* parse as the expected structure.
Malformed == {"garbage", "nondict", "badfield"}

C8_MalformedReplyNeverErrors ==
    ( /\ exc # None
      /\ exc[1].stage \in {"Parser", "Strategy", "Router", "Solver", "Verifier"} )
    => oracle_log[exc[1].stage] \notin Malformed

C10_TransportFailureRetried ==
    ( /\ exc # None
      /\ exc[1].stage \in {"Parser", "Strategy", "Solver"}
      /\ oracle_log[exc[1].stage] = "raise" )
    => calls[exc[1].stage] > 1

\* ------------------------------------------------------------------------
\* C11: when the index answers, retrieve does not raise and returns at most
\* k chunks, each with relevance_score at or above the floor (0.35), in
\* non-increasing order of relevance_score; when no hit of either search
\* reaches the floor it returns the empty list.
AllHits(r) == search(r.general_hits) \o search(r.topic_hits)

NoneReachesFloor(r) ==
    \A i \in 1..Len(AllHits(r)) :
        AllHits(r)[i].relevance_score < MIN_RELEVANCE_SCORE

RetrieveContract(r, out) ==
    /\ Len(out) <= r.k
    /\ \A i \in 1..Len(out) : out[i].relevance_score >= MIN_RELEVANCE_SCORE
    /\ \A i \in 1..(Len(out) - 1) :
          out[i].relevance_score >= out[i + 1].relevance_score
    /\ \A i \in 1..Len(out) :
          \E j \in 1..Len(AllHits(r)) : AllHits(r)[j] = out[i]
    /\ NoneReachesFloor(r) => out = <<>>

C11_RetrieveFloorOrderCut ==
    (returned # None /\ request[1].index_up) =>
       /\ ~returned[1].raised
       /\ RetrieveContract(request[1], returned[1].value)

\* a topic hit below the floor and more merged chunks than k
C11_Witness ==
    /\ returned # None
    /\ request[1].index_up
    /\ request[1].k = 1
    /\ request[1].topic = "algebra"
    /\ Len(request[1].general_hits) = 1
    /\ request[1].general_hits[1].distance = 65
    /\ Len(request[1].topic_hits) = 2
    /\ request[1].topic_hits[1].distance = 10
    /\ request[1].topic_hits[2].distance = 120
    /\ Len(returned[1].value) = 1
    /\ returned[1].value[1].relevance_score = 90

\* ------------------------------------------------------------------------
\* verify on its own: the sample equations in x, the value each sample
\* answer states, and which answers solve which equations
EquationsInX == {TxtEquation, TxtCompact, TxtThirdEq, TxtDoubleEq, TxtParen}

NumericAnswers ==
    {AnsFour, AnsOne, AnsHalf, AnsThird, AnsFracHalf, AnsNegative}

\* 2x+5=13 and 2(x+1)=10 at x = 4, 3x=1 at x = 1/3, 2x=2 at x = 1
SolvedBy ==
    {<<TxtEquation, AnsFour>>, <<TxtCompact, AnsFour>>, <<TxtParen, AnsFour>>,
     <<TxtThirdEq, AnsThird>>, <<TxtDoubleEq, AnsOne>>}

VerifiedPair == <<vcase[1].problem_text, vcase[1].final_answer>>

DeterministicTopic == vcase[1].topic \in {"algebra", "linear_algebra"}

\* C12: for an algebra or linear_algebra problem that is an equation in x
\* and a final answer whose value solves it, every call of verify returns
\* is_correct true, confidence 0.98 and no issue, without an oracle call,
\* and every repeated call returns what the first returned.
C12_DeterministicVerifyAccepts ==
    \A i \in 1..Len(vlog) :
       (DeterministicTopic /\ VerifiedPair \in SolvedBy) =>
          /\ ~vlog[i].called
          /\ vlog[i].res.is_correct
          /\ vlog[i].res.confidence = 98
          /\ vlog[i].res.issues_found = <<>>
          /\ vlog[i].res = vlog[1].res

\* ------------------------------------------------------------------------
\* C13: for an algebra or linear_algebra equation in x and a final answer
\* whose numeric value does not solve it, verify returns is_correct false,
\* confidence 0.40 and at least one issue.
C13_DeterministicVerifyRejects ==
    \A i \in 1..Len(vlog) :
       ( /\ DeterministicTopic
         /\ vcase[1].problem_text \in EquationsInX
         /\ vcase[1].final_answer \in NumericAnswers
         /\ VerifiedPair \notin SolvedBy ) =>
          /\ ~vlog[i].res.is_correct
          /\ vlog[i].res.confidence = 40
          /\ vlog[i].res.issues_found # <<>>

\* ------------------------------------------------------------------------
\* C14: for topic probability verify makes no oracle call and always
\* returns is_correct true; the confidence is at least 0.85 when the first
\* numeric token of the final answer lies in [0,1] and at least 0.75 for
\* every other final answer.
\* first tokens: 1, 0.5, 1 (of 1/3), 1 (of 1/2)
TokenInUnitInterval == {AnsOne, AnsHalf, AnsThird, AnsFracHalf}

C14_ProbabilityNeverBlocks ==
    \A i \in 1..Len(vlog) :
       vcase[1].topic = "probability" =>
          /\ ~vlog[i].called
          /\ vlog[i].res.is_correct
          /\ ~vlog[i].res.confidence_nan
          /\ vlog[i].res.confidence >= 75
          /\ vcase[1].final_answer \in TokenInUnitInterval =>
                vlog[i].res.confidence >= 85

C14_Witness ==
    /\ vcase # None
    /\ vcase[1].topic = "probability"
    /\ vcase[1].final_answer = AnsNegative
    /\ Len(vlog) = 2
    /\ vlog[2].oracle = "raise"
    /\ vlog[2].res.is_correct
    /\ vlog[2].res.confidence = 75

\* ------------------------------------------------------------------------
\* C15: whenever verify takes the oracle-judged path, the confidence it
\* returns is at least 0.70, whatever confidence the oracle reports.
C15_OracleJudgedFloor ==
    \A i \in 1..Len(vlog) :
       vlog[i].called =>
          /\ ~vlog[i].res.confidence_nan
          /\ vlog[i].res.confidence >= 70

\* ------------------------------------------------------------------------
\* C16: every call of verify returns a Verification; when the oracle call
\* raises, answers nothing, or answers something that is not a structured
\* judgment, the Verification is is_correct true, confidence 0.70, with an
\* issue noting the fallback.
C16_VerifyFallsBack ==
    \A i \in 1..Len(vlog) :
       /\ vlog[i].res.is_correct \in BOOLEAN
       /\ ( vlog[i].called
            /\ vlog[i].oracle \in {"raise", "empty", "garbage", "badfield"} ) =>
             /\ vlog[i].res.is_correct
             /\ ~vlog[i].res.confidence_nan
             /\ vlog[i].res.confidence = 70
             /\ vlog[i].res.issues_found = <<"Verifier fallback">>

C16_Witness ==
    /\ vcase # None
    /\ vcase[1].topic = "calculus"
    /\ Len(vlog) = 2
    /\ vlog[1].oracle = "raise"
    /\ vlog[2].oracle = "garbage"
    /\ vlog[2].called
    /\ vlog[2].res.confidence = 70
    /\ vlog[2].res.issues_found = <<"Verifier fallback">>

\* ------------------------------------------------------------------------
\* C17: every confidence and score a request holds lies in [0,1]:
\* ParsedProblem.confidence, Solution.confidence, Verification.confidence
\* and the relevance_score of every retrieved chunk.
InUnitRange(c) == 0 <= c /\ c <= 100

C17_ScoresInUnitRange ==
    /\ parsed_problem # None => InUnitRange(parsed_problem[1].confidence)
    /\ solution # None => InUnitRange(solution[1].confidence)
    /\ verification # None =>
          /\ ~verification[1].confidence_nan
          /\ InUnitRange(verification[1].confidence)
    /\ \A i \in 1..Len(retrieved_context) :
          InUnitRange(retrieved_context[i].relevance_score)

\* ------------------------------------------------------------------------
\* C18: save_interaction commits the row with embedding_id null, then
\* embeds, then writes the index entry keyed by the id derived from the
\* interaction id, then backfills embedding_id. After every step: a row
\* with a non-null embedding_id has its entry in the index under that id; a
\* call that is embedding or adding has its row stored with embedding_id
\* null and no index entry yet; a call about to backfill has its index
\* entry. When the embedding or the index write fails, the row stays as it
\* is, with embedding_id null, and the index is not touched.
Indexed(interaction_id) ==
    \E e \in index :
       e.id = <<"interaction", interaction_id>>
         /\ e.interaction_id = interaction_id

PersistenceOrder ==
    /\ \A i \in DOMAIN rows :
          rows[i].embedding_id # None =>
             rows[i].embedding_id = <<"interaction", i>> /\ Indexed(i)
    /\ \A w \in Writers :
          /\ writers[w].pc # "idle" =>
                /\ writers[w].id \in DOMAIN rows
                /\ rows[writers[w].id].embedding_id = None
          /\ writers[w].pc \in {"embed", "add"} => ~Indexed(writers[w].id)
          /\ writers[w].pc = "backfill" => Indexed(writers[w].id)

FailureKeepsRow ==
    \A w \in Writers :
       (writers[w].pc \in {"embed", "add"} /\ writers'[w].pc = "idle") =>
          /\ rows' = rows
          /\ index' = index
          /\ rows[writers[w].id].embedding_id = None

C18_PersistenceProtocol == [][PersistenceOrder' /\ FailureKeepsRow]_vars

\* a failed save left row 1 without embedding_id, a later one completed
C18_Witness ==
    /\ Len(rows) = 2
    /\ rows[1].embedding_id = None
    /\ rows[2].embedding_id = <<"interaction", 2>>
    /\ ~Indexed(1)
    /\ Indexed(2)
    /\ \A w \in Writers : writers[w].pc = "idle"

\* ------------------------------------------------------------------------
\* C19: every entry find_similar_problems returns is an entry of the vector
\* index, written by a save_interaction call that has passed its index
\* write, and its interaction row exists; no more entries are returned
\* than the index holds.
ReturnedFrom(d, e) ==
    /\ d.problem = e.document
    /\ d.solution = e.solution
    /\ d.topic = e.topic
    /\ d.feedback = e.feedback
    /\ e.interaction_id \in DOMAIN rows
    /\ rows[e.interaction_id].parsed_problem = d.problem
    /\ \A w \in Writers :
          writers[w].id = e.interaction_id =>
             writers[w].pc \notin {"embed", "add"}

C19_FindSimilarOnlyIndexed ==
    (found # None /\ ~found[1].raised) =>
       /\ Len(found[1].value) <= Cardinality(index)
       /\ \A i \in 1..Len(found[1].value) :
             \E e \in index : ReturnedFrom(found[1].value[i], e)

\* two rows, the second not yet in the index: only the first is returned
C19_Witness ==
    /\ found # None
    /\ ~found[1].raised
    /\ Len(rows) = 2
    /\ Indexed(1)
    /\ ~Indexed(2)
    /\ Len(found[1].value) = 1
    /\ found[1].value[1].problem = rows[1].parsed_problem

\* ------------------------------------------------------------------------
\* C20 (as claimed): in every step each existing row stays, its
\* embedding_id, once set, keeps its value, and no field other than
\* user_feedback (the feedback type) and embedding_id changes.
EmbeddingIdKept(i) ==
    /\ i \in DOMAIN rows'
    /\ rows[i].embedding_id # None =>
          rows'[i].embedding_id = rows[i].embedding_id

C20_OnlyFeedbackTypeAndEmbeddingId ==
    [][\A i \in DOMAIN rows :
          /\ EmbeddingIdKept(i)
          /\ [rows'[i] EXCEPT !.user_feedback = rows[i].user_feedback,
                              !.embedding_id = rows[i].embedding_id]
               = rows[i]]_vars

\* C20 (amended): in every step each existing row stays, its embedding_id,
\* once set, keeps its value, and no field other than user_feedback,
\* corrected_solution and embedding_id changes.
C20_RowFrame ==
    [][\A i \in DOMAIN rows :
          /\ EmbeddingIdKept(i)
          /\ [rows'[i] EXCEPT !.user_feedback = rows[i].user_feedback,
                              !.corrected_solution =
                                  rows[i].corrected_solution,
                              !.embedding_id = rows[i].embedding_id]
               = rows[i]]_vars

\* feedback with a correction recorded on a row whose embedding_id is set
C20_Witness ==
    /\ Len(rows) = 2
    /\ rows[1].embedding_id = <<"interaction", 1>>
    /\ rows[1].user_feedback = "incorrect"
    /\ rows[1].corrected_solution = "fix"
    /\ rows[1].solution = "s1"
    /\ Len(feedback_log) = 1

\* ------------------------------------------------------------------------
\* C22: when the confidence gate ends the request, the FinalResult carries
\* the Solution the Solver stage produced and the Verification the Verifier
\* stage produced, unchanged, and no explanation, and the Explainer stage
\* has not run; the Explainer stage runs only in requests whose
\* Verification passed the gate.
GateRouted ==
    /\ Status = "needs_hitl"
    /\ result[1].hitl_reason = "Low verifier confidence"

ExplainerRan == \E i \in 1..Len(traces) : traces[i].agent_name = "Explainer"

GateHeld ==
    /\ parsed_problem[1].topic \in {"algebra", "linear_algebra"}
    /\ ~verification[1].confidence_nan
    /\ verification[1].confidence < 80

C22_GateKeepsSolutionAndVerification ==
    /\ GateRouted =>
          /\ solution # None
          /\ verification # None
          /\ result[1].solution = solution
          /\ result[1].verification = verification
          /\ result[1].explanation = None
          /\ ~ExplainerRan
    /\ ExplainerRan =>
          /\ verification # None
          /\ ~GateHeld
          /\ Status = "success"
          /\ result[1].explanation # None

C22_Witness ==
    /\ GateRouted
    /\ GateHeld
    /\ result[1].solution = solution
    /\ solution # None
    /\ traces[Len(traces)].agent_name = "Verifier"

\* ------------------------------------------------------------------------
\* C23: in every FinalResult solve returns, the stages that started have
\* one trace each, in execution order, and every trace in the list has its
\* completed_at set and a status other than running.
C23_TracesCompleted ==
    result # None =>
       /\ StagesInOrder
       /\ \A i \in 1..Len(traces) :
             /\ traces[i].completed_at
             /\ traces[i].status # "running"

\* ------------------------------------------------------------------------
\* C29: every FinalResult with status needs_hitl carries a hitl_reason that
\* is set and not empty.
C29_NeedsReviewHasReason ==
    Status = "needs_hitl" =>
       /\ result[1].hitl_reason # NULL
       /\ result[1].hitl_reason # ""

\* ------------------------------------------------------------------------
\* C25: the list retrieve returns holds no two chunks with the same text;
\* a text both searches returned appears, if at all, with the
\* relevance_score the general search gave it.
FromGeneral(r, c) ==
    \A i \in 1..Len(r.general_hits) :
        r.general_hits[i].text = c.text =>
           c.relevance_score = 100 - r.general_hits[i].distance

C25_RetrieveDeduplicates ==
    (returned # None /\ ~returned[1].raised) =>
       /\ \A i, j \in 1..Len(returned[1].value) :
             i # j => returned[1].value[i].text # returned[1].value[j].text
       /\ \A i \in 1..Len(returned[1].value) :
             FromGeneral(request[1], returned[1].value[i])

\* both searches returned c1, the topic search nearer: the general one stays
C25_Witness ==
    /\ returned # None
    /\ ~returned[1].raised
    /\ request[1].topic = "algebra"
    /\ request[1].k = 3
    /\ request[1].general_hits = <<[text |-> "c1", distance |-> 65]>>
    /\ request[1].topic_hits =
          <<[text |-> "c1", distance |-> 10], [text |-> "c2", distance |-> 10]>>
    /\ returned[1].value =
          <<[text |-> "c2", relevance_score |-> 90],
            [text |-> "c1", relevance_score |-> 35]>>

\* ------------------------------------------------------------------------
\* C24: for an algebra or linear_algebra problem, verify returns the
\* deterministic verdict, without an oracle call, exactly when the problem
\* is an equation whose two sides can be evaluated and the final answer
\* states a number; in every other case (no "=", no number in the answer,
\* a letter other than x, more than one "=", a side that cannot be
\* evaluated) it consults the oracle.
BothSidesEvaluated ==
    /\ vcase[1].problem_text \in EquationsInX
    /\ vcase[1].final_answer \in NumericAnswers

C24_NotApplicableFallsThrough ==
    \A i \in 1..Len(vlog) :
       DeterministicTopic =>
          /\ vlog[i].called <=> ~BothSidesEvaluated
          /\ ~vlog[i].called => vlog[i].res.confidence \in {98, 40}

\* ------------------------------------------------------------------------
\* C26: for every interaction that is in the interactions table and in the
\* vector index, the feedback in the index entry's metadata is the
\* user_feedback of the row (the empty string standing for no feedback).
C26_IndexFeedbackAgrees ==
    \A e \in index :
       e.interaction_id \in DOMAIN rows =>
          e.feedback = IF rows[e.interaction_id].user_feedback = NULL THEN ""
                       ELSE rows[e.interaction_id].user_feedback

\* ------------------------------------------------------------------------
\* C30: a call of store_failure leaves exactly one new row in the
\* interactions table, with user_feedback "incorrect", and exactly one new
\* feedback_log entry, which names that row and carries the correction.
C30_StoreFailurePersists ==
    [][rejected' # None =>
          /\ ~rejected'[1].raised
          /\ Len(rows') = Len(rows) + 1
          /\ rows'[Len(rows')].user_feedback = "incorrect"
          /\ Len(feedback_log') = Len(feedback_log) + 1
          /\ feedback_log'[Len(feedback_log')].interaction_id = Len(rows')
          /\ feedback_log'[Len(feedback_log')].corrected_solution = "fix"]_vars

\* ------------------------------------------------------------------------
\* C21: a record_strategy_outcome call that completes leaves the weight of
\* every other (topic, question_type) pair as it was and sets the weight of
\* its own pair to the weight it read plus 1.0 for a success, minus 0.5 for
\* a failure; when no other call wrote in between, the weight of its pair
\* rises by exactly 1.0 or falls by exactly 0.5 (weights in halves).
Completes(t) == learners[t].pc = "store" /\ learners'[t].pc = "idle"

ExactDelta(t) == IF learners[t].success THEN 2 ELSE -1

C21_RecordChangesOneWeight ==
    [][\A t \in LearnThreads :
          Completes(t) =>
             /\ \A p \in LearnPairs \ {learners[t].pair} :
                   weight_for(strategy_weights', p)
                      = weight_for(strategy_weights, p)
             /\ weight_for(strategy_weights', learners[t].pair)
                   = learners[t].seen + ExactDelta(t)
             /\ learners[t].seen
                   = weight_for(strategy_weights, learners[t].pair)
                => weight_for(strategy_weights', learners[t].pair)
                      - weight_for(strategy_weights, learners[t].pair)
                   = ExactDelta(t)]_vars

\* a success on one pair, then a failure on the other, one after the other
C21_Witness ==
    /\ outcomes = <<[pair |-> <<"algebra", "solve_equation">>,
                     success |-> TRUE],
                    [pair |-> <<"calculus", "differentiate">>,
                     success |-> FALSE]>>
    /\ \A t \in LearnThreads : learners[t].pc = "idle"
    /\ weight_for(strategy_weights, <<"algebra", "solve_equation">>) = 2
    /\ weight_for(strategy_weights, <<"calculus", "differentiate">>) = -1

\* ------------------------------------------------------------------------
\* C27: whenever no call is in flight, the learner was built without an
\* exception, a rebuild from the interactions table succeeds, and the
\* weight of every pair equals the weight the rebuild gives it.
CacheAgrees(rebuilt) ==
    /\ ~load_raised
    /\ ~rebuilt.raised
    /\ \A p \in LearnPairs :
          weight_for(strategy_weights, p) = weight_for(rebuilt.value[1], p)

C27_CacheEqualsRebuild ==
    ( /\ \A t \in LearnThreads : learners[t].pc = "idle"
      /\ \A w \in Writers : writers[w].pc = "idle" )
    => CacheAgrees(_load_strategy_weights(rows))

\* ------------------------------------------------------------------------
\* C28: whenever every record_strategy_outcome call made has completed, the
\* weight of each pair is the sum of the deltas of the calls made for it
\* (the learner starts from weights 0).
RECURSIVE SumOfDeltas(_, _)
SumOfDeltas(log, p) ==
    IF log = <<>> THEN 0
    ELSE SumOfDeltas(Tail(log), p)
           + IF Head(log).pair # p THEN 0
             ELSE IF Head(log).success THEN 2 ELSE -1

C28_NoLostUpdate ==
    (\A t \in LearnThreads : learners[t].pc = "idle") =>
       \A p \in LearnPairs :
          weight_for(strategy_weights, p) = SumOfDeltas(outcomes, p)

====
